---- MODULE Spec2Model ----
(***************************************************************************)
(* Model of app.py: the /tailor request pipeline (upload validation, save  *)
(* to the upload directory, job-detail resolution, resume extraction, AI   *)
(* call, result rendering, scratch-file cleanup), the web page text        *)
(* extractor and the Google AI adapter.                                    *)
(*                                                                         *)
(* Strings are sequences of tokens.  A token is one character (" ", "\n",  *)
(* ".", "a"), or an opaque block of characters that the code only ever     *)
(* treats as a unit (a file-name stem, a URL scheme prefix, a phrase of an *)
(* error message, a block of 60 non-blank characters).                     *)
(***************************************************************************)
EXTENDS Integers, Sequences, FiniteSets, TLC

\* Number of POST /tailor requests that may be in flight together.
NumRequests == 2
\* Longest exception message of the AI service, in phrases.
MaxErrLen == 2
\* Longest body of a fetched page, in tokens (text tokens and element starts).
MaxPageLen == 4

\* len(text_content) < 100, app.py line 90.
LowTextThreshold == 100

Reqs == 1..NumRequests

RECURSIVE SeqsUpTo(_, _)
SeqsUpTo(S, n) ==
    IF n = 0 THEN {<<>>}
    ELSE LET shorter == SeqsUpTo(S, n - 1)
         IN  shorter \cup {Append(s, x) : s \in shorter, x \in S}

(***************************************************************************)
(* str methods used by the code                                            *)
(***************************************************************************)
IsSpace(t) == t \in {" ", "\n"}

RECURSIVE LStrip(_)
LStrip(s) == IF s # <<>> /\ IsSpace(Head(s)) THEN LStrip(Tail(s)) ELSE s

RECURSIVE RStrip(_)
RStrip(s) ==
    IF s # <<>> /\ IsSpace(s[Len(s)]) THEN RStrip(SubSeq(s, 1, Len(s) - 1)) ELSE s

\* str.strip()
Strip(s) == RStrip(LStrip(s))

\* str.lower(), token by token
LowerTok(t) ==
    CASE t = "DOCX" -> "docx"
      [] t = "Docx" -> "docx"
      [] t = "TXT" -> "txt"
      [] t = "HTTP://" -> "http://"
      [] t = "API key not valid" -> "api key not valid"
      [] t = "API KEY NOT VALID" -> "api key not valid"
      [] t = "Billing Account" -> "billing account"
      [] t = "Permission Denied" -> "permission denied"
      [] t = "Model" -> "model"
      [] t = "Not Found" -> "not found"
      [] OTHER -> t

Lower(s) == [i \in 1..Len(s) |-> LowerTok(s[i])]

\* phrase in s
Contains(s, phrase) == \E i \in 1..Len(s) : s[i] = phrase

\* s.startswith(prefix), prefix one token
StartsWith(s, prefix) == s # <<>> /\ Head(s) = prefix

\* number of characters of a token, of a string
TokLen(t) == IF t = "w60" THEN 60 ELSE 1

RECURSIVE StrLen(_)
StrLen(s) == IF s = <<>> THEN 0 ELSE TokLen(Head(s)) + StrLen(Tail(s))

(***************************************************************************)
(* allowed_file, secure_filename                                           *)
(***************************************************************************)
ALLOWED_EXTENSIONS == {<<"docx">>}

\* index of the last "." of a file name, 0 when there is none
LastDot(filename) ==
    LET dots == {i \in 1..Len(filename) : filename[i] = "."}
    IN  IF dots = {} THEN 0 ELSE CHOOSE i \in dots : \A j \in dots : j <= i

\* filename.rsplit('.', 1)[1]
RSplitExt(filename) == SubSeq(filename, LastDot(filename) + 1, Len(filename))

\* a plausible slip: split('.')[1], the part after the FIRST dot
allowed_file_firstdot(filename) ==
    LET dots == {i \in 1..Len(filename) : filename[i] = "."}
        first == CHOOSE i \in dots : \A j \in dots : i <= j
        rest == SubSeq(filename, first + 1, Len(filename))
        nxt == {i \in 1..Len(rest) : rest[i] = "."}
        stop == IF nxt = {} THEN Len(rest) + 1
                ELSE CHOOSE i \in nxt : \A j \in nxt : i <= j
    IN  /\ dots # {}
        /\ Lower(SubSeq(rest, 1, stop - 1)) \in ALLOWED_EXTENSIONS

allowed_file(filename) ==
    /\ Contains(filename, ".")
    /\ Lower(RSplitExt(filename)) \in ALLOWED_EXTENSIONS

\* werkzeug's secure_filename: path separators become "_", then leading and
\* trailing "." and "_" are stripped.  "../" is the token of a traversal prefix.
RECURSIVE ReplaceSeps(_)
ReplaceSeps(s) ==
    IF s = <<>> THEN <<>>
    ELSE (IF Head(s) = "../" THEN <<".", ".", "_">> ELSE <<Head(s)>>)
         \o ReplaceSeps(Tail(s))

RECURSIVE StripDots(_)
StripDots(s) ==
    IF s # <<>> /\ Head(s) \in {".", "_"} THEN StripDots(Tail(s))
    ELSE IF s # <<>> /\ s[Len(s)] \in {".", "_"}
         THEN StripDots(SubSeq(s, 1, Len(s) - 1))
         ELSE s

secure_filename(filename) == StripDots(ReplaceSeps(filename))

\* a plausible slip: the scheme compared without regard to case
ValidScheme_anycase(job_link) ==
    StartsWith(Lower(job_link), "http://") \/ StartsWith(Lower(job_link), "https://")

\* line 230: job_link.startswith('http://') or job_link.startswith('https://')
ValidScheme(job_link) ==
    StartsWith(job_link, "http://") \/ StartsWith(job_link, "https://")

UPLOAD_FOLDER == <<"uploads">>

\* os.path.join(app.config['UPLOAD_FOLDER'], filename)
PathJoin(dir, name) == dir \o <<"/">> \o name

(***************************************************************************)
(* Optional strings: a Python value that is None or a str                  *)
(***************************************************************************)
None == [none |-> TRUE, s |-> <<>>]
Str(s) == [none |-> FALSE, s |-> s]
\* bool(v)
Truthy(v) == ~v.none /\ v.s # <<>>

(***************************************************************************)
(* extract_text_from_url                                                   *)
(*                                                                         *)
(* A page is the outcome of the GET and, when it succeeded, whether the    *)
(* markup has a body element and the body's content as a stream of tokens: *)
(* "<p>" opens a text node of a content element, "<script>" a text node of *)
(* an element of one of the kinds the extractor removes; the tokens up to  *)
(* the next opening are the node's text.                                   *)
(***************************************************************************)
TextTokens == {"a", " ", "\n", "w60"}
NodeOpens == {"<p>", "<script>"}
PageTokens == TextTokens \cup NodeOpens

\* the text nodes of a body: <<tag, text>>, in document order
RECURSIVE ParseNodes(_, _, _)
ParseNodes(stream, tag, text) ==
    IF stream = <<>> THEN << <<tag, text>> >>
    ELSE IF Head(stream) \in NodeOpens
         THEN << <<tag, text>> >> \o ParseNodes(Tail(stream), Head(stream), <<>>)
         ELSE ParseNodes(Tail(stream), tag, Append(text, Head(stream)))

\* for element in soup([...]): element.decompose()
RECURSIVE Decompose(_)
Decompose(nodes) ==
    IF nodes = <<>> THEN <<>>
    ELSE (IF Head(nodes)[1] = "<script>" THEN <<>> ELSE <<Head(nodes)>>)
         \o Decompose(Tail(nodes))

\* body.get_text(separator='\n', strip=True): every text node stripped, the
\* empty ones dropped, the rest joined by "\n"
RECURSIVE GetText(_)
GetText(nodes) ==
    IF nodes = <<>> THEN <<>>
    ELSE LET piece == Strip(Head(nodes)[2])
             rest == GetText(Tail(nodes))
         IN  IF piece = <<>> THEN rest
             ELSE IF rest = <<>> THEN piece
             ELSE piece \o <<"\n">> \o rest

\* length of the longest prefix of s made of whitespace
RECURSIVE SpaceRun(_)
SpaceRun(s) == IF s # <<>> /\ IsSpace(Head(s)) THEN 1 + SpaceRun(Tail(s)) ELSE 0

\* re.sub(r'\n\s*\n', '\n\n', s): leftmost match, \s* greedy
RECURSIVE Collapse(_)
Collapse(s) ==
    IF s = <<>> THEN <<>>
    ELSE IF Head(s) = "\n"
         THEN LET run == SpaceRun(s)
                  nls == {i \in 2..run : s[i] = "\n"}
              IN  IF nls = {} THEN <<"\n">> \o Collapse(Tail(s))
                  ELSE LET last == CHOOSE i \in nls : \A j \in nls : j <= i
                       IN  <<"\n", "\n">> \o Collapse(SubSeq(s, last + 1, Len(s)))
         ELSE <<Head(s)>> \o Collapse(Tail(s))

\* text_content as computed by lines 82-86 for a page whose fetch succeeded
BodyText(page) ==
    IF page.has_body
    THEN Strip(Collapse(GetText(Decompose(ParseNodes(page.body, "<p>", <<>>)))))
    ELSE <<>>

\* a plausible slip: weak content (under the threshold) treated as a failure
extract_text_from_url_strict(page) ==
    IF page.fetch # "ok" THEN [result |-> None, low_text_warning |-> FALSE]
    ELSE LET text_content == BodyText(page)
         IN  [result |-> IF StrLen(text_content) >= LowTextThreshold
                         THEN Str(text_content) ELSE None,
              low_text_warning |-> StrLen(text_content) < LowTextThreshold]

\* the returned value, and whether the low-text warning of line 91 was logged
extract_text_from_url(page) ==
    IF page.fetch # "ok" THEN [result |-> None, low_text_warning |-> FALSE]
    ELSE LET text_content == BodyText(page)
         IN  [result |-> IF text_content # <<>> THEN Str(text_content) ELSE None,
              low_text_warning |-> StrLen(text_content) < LowTextThreshold]

FetchFailures == {"timeout", "request_error", "parse_error"}

Pages ==
    {[fetch |-> f, has_body |-> FALSE, body |-> <<>>] : f \in FetchFailures}
    \cup {[fetch |-> "ok", has_body |-> b, body |-> s] :
            b \in BOOLEAN, s \in SeqsUpTo(PageTokens, MaxPageLen)}

(***************************************************************************)
(* call_google_ai                                                          *)
(*                                                                         *)
(* What model.generate_content does is the environment's choice: it raises *)
(* an exception with some message, or returns a response.                  *)
(***************************************************************************)
BlockReasons == {"BLOCK_REASON_UNSPECIFIED", "SAFETY", "OTHER"}
\* bool(block_reason): the enum's zero value is falsy
BlockSet(reason) == reason # "BLOCK_REASON_UNSPECIFIED"

ErrPhrases ==
    {"API key not valid", "api key not valid", "API KEY NOT VALID",
     "billing account", "Billing Account", "permission denied",
     "consumer does not have access", "Model", "not found", "quota exceeded"}

Responses ==
    [kind : {"response"}, has_feedback : BOOLEAN, block_reason : BlockReasons,
     has_text : BOOLEAN, text : {<<>>, <<"Tailored: John Doe">>},
     error_str : {<<>>}]

Raises(msgs) ==
    [kind : {"raises"}, has_feedback : {FALSE},
     block_reason : {"BLOCK_REASON_UNSPECIFIED"}, has_text : {FALSE},
     text : {<<>>}, error_str : msgs]

AiOutcomes == Responses \cup Raises(SeqsUpTo(ErrPhrases, MaxErrLen))

\* lines 164-174: the message returned for an exception
ClassifyError(error_str) ==
    IF Contains(error_str, "API key not valid")
    THEN <<"Authentication Error: Invalid API key.">>
    ELSE IF Contains(Lower(error_str), "billing account")
    THEN <<"Billing Error: Check Google Cloud project billing status.">>
    ELSE IF \/ Contains(Lower(error_str), "permission denied")
            \/ Contains(Lower(error_str), "consumer does not have access")
    THEN <<"Permission Error: Check API enablement in Google Cloud project.">>
    ELSE IF Contains(Lower(error_str), "model") /\ Contains(Lower(error_str), "not found")
    THEN <<"Model Error: Selected model not found.">>
    ELSE <<"An unexpected AI service error occurred: ">> \o error_str

\* a plausible slip: the text field tested before the block indicator
InterpretResponse_textfirst(resp) ==
    IF resp.has_text /\ resp.text # <<>>
    THEN [text |-> Str(resp.text), error |-> None]
    ELSE IF resp.has_feedback /\ BlockSet(resp.block_reason)
    THEN [text |-> None,
          error |-> Str(<<"AI request blocked: ", resp.block_reason, ". Review inputs.">>)]
    ELSE [text |-> None,
          error |-> Str(<<"AI response format was unexpected or empty.">>)]

\* lines 150-159: the pair returned for a response
InterpretResponse(resp) ==
    IF resp.has_feedback /\ BlockSet(resp.block_reason)
    THEN [text |-> None,
          error |-> Str(<<"AI request blocked: ", resp.block_reason, ". Review inputs.">>)]
    ELSE IF resp.has_text /\ resp.text # <<>>
    THEN [text |-> Str(resp.text), error |-> None]
    ELSE [text |-> None,
          error |-> Str(<<"AI response format was unexpected or empty.">>)]

\* a plausible slip: the text of the response passed on without the emptiness test
call_google_ai_unchecked(api_key, outcome) ==
    IF ~api_key
    THEN [text |-> None, error |-> Str(<<"API Key not configured.">>), calls |-> 0]
    ELSE IF outcome.kind = "raises"
    THEN [text |-> None, error |-> Str(ClassifyError(outcome.error_str)), calls |-> 1]
    ELSE IF outcome.has_feedback /\ BlockSet(outcome.block_reason)
    THEN [text |-> None,
          error |-> Str(<<"AI request blocked: ", outcome.block_reason, ". Review inputs.">>),
          calls |-> 1]
    ELSE [text |-> Str(outcome.text), error |-> None, calls |-> 1]

\* a plausible slip: the call attempted although no credential was loaded
call_google_ai_nokeycheck(api_key, outcome) ==
    IF outcome.kind = "raises"
    THEN [text |-> None, error |-> Str(ClassifyError(outcome.error_str)), calls |-> 1]
    ELSE InterpretResponse(outcome) @@ [calls |-> 1]

\* the returned pair (text, error), and the number of outbound calls made
call_google_ai(api_key, outcome) ==
    IF ~api_key
    THEN [text |-> None, error |-> Str(<<"API Key not configured.">>), calls |-> 0]
    ELSE IF outcome.kind = "raises"
    THEN [text |-> None, error |-> Str(ClassifyError(outcome.error_str)), calls |-> 1]
    ELSE InterpretResponse(outcome) @@ [calls |-> 1]

\* lines 268-283 of tailor_resume: what the route does with the pair.
\* render_ok: whether render_template returned rather than raised.
HandleAiResult(pair, render_ok) ==
    IF Truthy(pair.error)
    THEN [view |-> "redirect", notice |-> pair.error.s, tailored |-> <<>>]
    ELSE IF Truthy(pair.text)
    THEN IF render_ok
         THEN [view |-> "result", notice |-> <<>>, tailored |-> pair.text.s]
         ELSE [view |-> "redirect",
               notice |-> <<"An unexpected error occurred. Please try again.">>,
               tailored |-> <<>>]
    ELSE [view |-> "redirect",
          notice |-> <<"AI processing finished but no content generated.">>,
          tailored |-> <<>>]

(***************************************************************************)
(* extract_text_from_docx                                                  *)
(***************************************************************************)
\* '\n'.join(paragraphs)
RECURSIVE JoinLines(_)
JoinLines(paras) ==
    IF paras = <<>> THEN <<>>
    ELSE IF Len(paras) = 1 THEN Head(paras)
    ELSE Head(paras) \o <<"\n">> \o JoinLines(Tail(paras))

\* what a path holds: nothing (owner 0), or the bytes request `owner` wrote there,
\* which parse as a document with these paragraphs or do not parse
NoFile == [owner |-> 0, valid |-> FALSE, paragraphs |-> <<>>]
Corrupt(r) == [owner |-> r, valid |-> FALSE, paragraphs |-> <<>>]
Document(r, paras) == [owner |-> r, valid |-> TRUE, paragraphs |-> paras]

\* docx.Document raises on a missing or unparsable file: the except returns None
extract_text_from_docx(file) ==
    IF file.owner # 0 /\ file.valid THEN Str(JoinLines(file.paragraphs)) ELSE None

(***************************************************************************)
(* The requests' inputs.  Request 1 draws every kind of submission; the    *)
(* requests in flight beside it upload a readable "resume.docx" with       *)
(* either manual job details or a malformed link.                          *)
(***************************************************************************)
ValidNames ==
    {<<"resume", ".", "docx">>, <<"../", "resume", ".", "docx">>,
     <<"resume", ".", "DOCX">>}
InvalidNames ==
    {<<>>, <<"resume", ".", "txt">>, <<"resume">>,
     <<"resume", ".", "docx", ".", "txt">>}

\* request.files: the resumeFile part, when there is one
Uploads(r) ==
    IF r = 1
    THEN {[has_part |-> FALSE, filename |-> <<>>]}
         \cup {[has_part |-> TRUE, filename |-> f] : f \in InvalidNames \cup ValidNames}
    ELSE {[has_part |-> TRUE, filename |-> <<"resume", ".", "docx">>]}

\* the bytes of request r's upload, as file.save writes them
Docs(r) ==
    IF r = 1
    THEN {Corrupt(r), Document(r, << <<" ">>, <<>> >>), Document(r, << <<"John Doe">> >>)}
    ELSE {Document(r, << <<"Jane Roe">> >>)}

JobLinks ==
    {<<>>, <<" ">>, <<"not-a-url">>, <<"http://", "job">>, <<"HTTP://", "job">>,
     <<" ", "https://", "job">>}

\* request.form: jobLink, jobRole, jobDescription (company does not decide anything)
Forms(r) ==
    IF r = 1
    THEN {[jobLink |-> l, jobRole |-> <<"Backend Engineer">>,
           jobDescription |-> <<"Build APIs">>] : l \in JobLinks}
         \cup {[jobLink |-> <<>>, jobRole |-> <<" ">>, jobDescription |-> <<"Build APIs">>],
               [jobLink |-> <<>>, jobRole |-> <<"Backend Engineer">>,
                jobDescription |-> <<>>]}
    ELSE {[jobLink |-> l, jobRole |-> <<"Backend Engineer">>,
           jobDescription |-> <<"Build APIs">>] : l \in {<<>>, <<"not-a-url">>}}

\* what the fetch of a job link may find
SamplePages ==
    {[fetch |-> "timeout", has_body |-> FALSE, body |-> <<>>],
     [fetch |-> "ok", has_body |-> FALSE, body |-> <<"a">>],
     [fetch |-> "ok", has_body |-> TRUE, body |-> <<" ">>],
     [fetch |-> "ok", has_body |-> TRUE, body |-> <<"a">>],
     [fetch |-> "ok", has_body |-> TRUE, body |-> <<"w60", "w60">>]}

\* what the AI service may do with a request's prompt
SampleAiOutcomes(r) ==
    IF r = 1
    THEN Raises({<<"API key not valid">>, <<"quota exceeded">>})
         \cup {o \in Responses :
                 /\ o.has_feedback /\ o.has_text
                 /\ o.block_reason \in {"BLOCK_REASON_UNSPECIFIED", "SAFETY"}}
    ELSE {o \in Responses :
            /\ o.has_feedback /\ o.has_text /\ o.text # <<>>
            /\ o.block_reason = "BLOCK_REASON_UNSPECIFIED"}

Paths == {PathJoin(UPLOAD_FOLDER, secure_filename(f)) : f \in ValidNames}

NoUpload == [has_part |-> FALSE, filename |-> <<>>]
NoForm == [jobLink |-> <<>>, jobRole |-> <<>>, jobDescription |-> <<>>]

(***************************************************************************)
(* State                                                                   *)
(***************************************************************************)
VARIABLES
    API_KEY,      \* whether GOOGLE_API_KEY was loaded at start-up
    fs,           \* the upload directory: path -> what it holds
    pc,           \* each request's position in tailor_resume
    upload,       \* request.files as the request read it
    form,         \* request.form as the request read it
    filepath,     \* the local filepath: <<>> is None
    notice,       \* the message flashed
    view,         \* the response: "none" yet, "redirect", "result", "error500"
    wrote,        \* whether the request created a file in the upload directory
    read_from,    \* whose bytes extract_text_from_docx read: -1 not read yet
    removals,     \* os.remove calls the request made
    fetches,      \* URL fetches the request made
    ai_invoked,   \* calls of call_google_ai the request made
    ai_calls,     \* outbound AI service calls the request made
    ai_in, ai_out,    \* the adapter alone: credential and service outcome; results
    url_in, url_out   \* the page extractor alone: page; result

vars == <<API_KEY, fs, pc, upload, form, filepath, notice, view, wrote, read_from,
          removals, fetches, ai_invoked, ai_calls, ai_in, ai_out, url_in, url_out>>

reqVars == <<API_KEY, fs, pc, upload, form, filepath, notice, view, wrote, read_from,
             removals, fetches, ai_invoked, ai_calls>>
unitVars == <<ai_in, ai_out, url_in, url_out>>

\* os.path.exists(filepath)
Exists(path) == fs[path].owner # 0

Finish(r, v) ==
    /\ pc' = [pc EXCEPT ![r] = "done"]
    /\ view' = [view EXCEPT ![r] = v]

Flash(r, msg) == notice' = [notice EXCEPT ![r] = msg]

(***************************************************************************)
(* tailor_resume, one action per step that reads or writes shared state    *)
(***************************************************************************)
InitRequests ==
    /\ API_KEY \in BOOLEAN
    /\ fs = [p \in Paths |-> NoFile]
    /\ pc = [r \in Reqs |-> "start"]
    /\ upload = [r \in Reqs |-> NoUpload]
    /\ form = [r \in Reqs |-> NoForm]
    /\ filepath = [r \in Reqs |-> <<>>]
    /\ notice = [r \in Reqs |-> <<>>]
    /\ view = [r \in Reqs |-> "none"]
    /\ wrote = [r \in Reqs |-> FALSE]
    /\ read_from = [r \in Reqs |-> -1]
    /\ removals = [r \in Reqs |-> 0]
    /\ fetches = [r \in Reqs |-> 0]
    /\ ai_invoked = [r \in Reqs |-> 0]
    /\ ai_calls = [r \in Reqs |-> 0]

\* lines 193-202: the upload is read and validated
Validate(r) ==
    /\ pc[r] = "start"
    /\ \E up \in Uploads(r) :
        /\ upload' = [upload EXCEPT ![r] = up]
        /\ IF ~up.has_part
           THEN Flash(r, <<"No resume file part selected.">>) /\ Finish(r, "redirect")
           ELSE IF up.filename = <<>>
           THEN Flash(r, <<"No resume file selected.">>) /\ Finish(r, "redirect")
           ELSE IF ~allowed_file(up.filename)
           THEN /\ Flash(r, <<"Invalid resume file type (.docx only).">>)
                /\ Finish(r, "redirect")
           ELSE /\ pc' = [pc EXCEPT ![r] = "save"]
                /\ UNCHANGED <<notice, view>>
    /\ UNCHANGED <<API_KEY, fs, form, filepath, wrote, read_from, removals, fetches,
                   ai_invoked, ai_calls, unitVars>>

\* lines 205-213: the file is saved under its sanitized name, or the save raises
Save(r) ==
    /\ pc[r] = "save"
    /\ LET path == PathJoin(UPLOAD_FOLDER, secure_filename(upload[r].filename))
       IN  \/ \* file.save returned
              /\ filepath' = [filepath EXCEPT ![r] = path]
              /\ \E doc \in Docs(r) : fs' = [fs EXCEPT ![path] = doc]
              /\ wrote' = [wrote EXCEPT ![r] = TRUE]
              /\ pc' = [pc EXCEPT ![r] = "resolve"]
              /\ UNCHANGED <<notice, view>>
           \/ \* os.makedirs raised: filepath is still None, lines 215-218 skip
              /\ Flash(r, <<"Error saving uploaded file.">>)
              /\ Finish(r, "redirect")
              /\ UNCHANGED <<filepath, fs, wrote>>
           \/ \* file.save raised before it created the file
              /\ filepath' = [filepath EXCEPT ![r] = path]
              /\ Flash(r, <<"Error saving uploaded file.">>)
              /\ pc' = [pc EXCEPT ![r] = "save_failed"]
              /\ UNCHANGED <<fs, wrote, view>>
           \/ \* file.save raised with the file half-written
              /\ filepath' = [filepath EXCEPT ![r] = path]
              /\ fs' = [fs EXCEPT ![path] = Corrupt(r)]
              /\ wrote' = [wrote EXCEPT ![r] = TRUE]
              /\ Flash(r, <<"Error saving uploaded file.">>)
              /\ pc' = [pc EXCEPT ![r] = "save_failed"]
              /\ UNCHANGED view
    /\ UNCHANGED <<API_KEY, upload, form, read_from, removals, fetches, ai_invoked, ai_calls,
                   unitVars>>

\* line 215: os.path.exists(filepath) after a failed save
SaveFailedCheck(r) ==
    /\ pc[r] = "save_failed"
    /\ IF Exists(filepath[r])
       THEN pc' = [pc EXCEPT ![r] = "save_failed_remove"] /\ UNCHANGED view
       ELSE Finish(r, "redirect")
    /\ UNCHANGED <<API_KEY, fs, upload, form, filepath, notice, wrote, read_from,
                   removals, fetches, ai_invoked, ai_calls, unitVars>>

\* lines 216-218: os.remove, an OSError passed over
SaveFailedRemove(r) ==
    /\ pc[r] = "save_failed_remove"
    /\ removals' = [removals EXCEPT ![r] = @ + 1]
    /\ fs' = [fs EXCEPT ![filepath[r]] = NoFile]
    /\ Finish(r, "redirect")
    /\ UNCHANGED <<API_KEY, upload, form, filepath, notice, wrote, read_from, fetches,
                   ai_invoked, ai_calls, unitVars>>

\* lines 222-253: the form is read and the job details resolved
Resolve(r) ==
    /\ pc[r] = "resolve"
    /\ \E f \in Forms(r) :
        LET job_link == Strip(f.jobLink)
            manual_job_role == Strip(f.jobRole)
            manual_job_description == Strip(f.jobDescription)
        IN  /\ form' = [form EXCEPT ![r] = f]
            /\ IF job_link # <<>>
               THEN IF ~ValidScheme(job_link)
                    THEN /\ Flash(r, <<"Invalid Job Link URL format.">>)
                         /\ pc' = [pc EXCEPT ![r] = "early_cleanup"]
                         /\ UNCHANGED fetches
                    ELSE \E page \in SamplePages :
                           /\ fetches' = [fetches EXCEPT ![r] = @ + 1]
                           /\ IF Truthy(extract_text_from_url(page).result)
                              THEN /\ pc' = [pc EXCEPT ![r] = "extract"]
                                   /\ UNCHANGED notice
                              ELSE /\ Flash(r, <<"Could not extract details from link. Enter manually.">>)
                                   /\ pc' = [pc EXCEPT ![r] = "early_cleanup"]
               ELSE IF manual_job_role = <<>> \/ manual_job_description = <<>>
                    THEN /\ Flash(r, <<"Job Role and Description required if no link.">>)
                         /\ pc' = [pc EXCEPT ![r] = "early_cleanup"]
                         /\ UNCHANGED fetches
                    ELSE /\ pc' = [pc EXCEPT ![r] = "extract"]
                         /\ UNCHANGED <<notice, fetches>>
    /\ UNCHANGED <<API_KEY, fs, upload, filepath, view, wrote, read_from, removals,
                   ai_invoked, ai_calls, unitVars>>

\* lines 232, 242, 248: os.path.exists(filepath) before the early return
EarlyCheck(r) ==
    /\ pc[r] = "early_cleanup"
    /\ IF Exists(filepath[r])
       THEN pc' = [pc EXCEPT ![r] = "early_remove"] /\ UNCHANGED view
       ELSE Finish(r, "redirect")
    /\ UNCHANGED <<API_KEY, fs, upload, form, filepath, notice, wrote, read_from,
                   removals, fetches, ai_invoked, ai_calls, unitVars>>

\* lines 232, 242, 248: os.remove(filepath), not inside any try: the
\* FileNotFoundError of a path that is gone by now leaves the route
EarlyRemove(r) ==
    /\ pc[r] = "early_remove"
    /\ removals' = [removals EXCEPT ![r] = @ + 1]
    /\ IF Exists(filepath[r])
       THEN fs' = [fs EXCEPT ![filepath[r]] = NoFile] /\ Finish(r, "redirect")
       ELSE UNCHANGED fs /\ Finish(r, "error500")
    /\ UNCHANGED <<API_KEY, upload, form, filepath, notice, wrote, read_from, fetches,
                   ai_invoked, ai_calls, unitVars>>

\* lines 258-261: the resume text is read from the path
ExtractResume(r) ==
    /\ pc[r] = "extract"
    /\ read_from' = [read_from EXCEPT ![r] = fs[filepath[r]].owner]
    /\ LET original_resume_text == extract_text_from_docx(fs[filepath[r]])
       IN  IF ~Truthy(original_resume_text) \/ Strip(original_resume_text.s) = <<>>
           THEN /\ Flash(r, <<"Could not read resume file or it is empty.">>)
                /\ view' = [view EXCEPT ![r] = "redirect"]
                /\ pc' = [pc EXCEPT ![r] = "finally"]
           ELSE /\ pc' = [pc EXCEPT ![r] = "call_ai"]
                /\ UNCHANGED <<notice, view>>
    /\ UNCHANGED <<API_KEY, fs, upload, form, filepath, wrote, removals, fetches,
                   ai_invoked, ai_calls, unitVars>>

\* lines 263-288: the adapter is called and its pair handled
CallAI(r) ==
    /\ pc[r] = "call_ai"
    /\ \E outcome \in SampleAiOutcomes(r), render_ok \in BOOLEAN :
        LET pair == call_google_ai(API_KEY, outcome)
            handled == HandleAiResult(pair, render_ok)
        IN  /\ ai_invoked' = [ai_invoked EXCEPT ![r] = @ + 1]
            /\ ai_calls' = [ai_calls EXCEPT ![r] = @ + pair.calls]
            /\ notice' = [notice EXCEPT ![r] = handled.notice]
            /\ view' = [view EXCEPT ![r] = handled.view]
    /\ pc' = [pc EXCEPT ![r] = "finally"]
    /\ UNCHANGED <<API_KEY, fs, upload, form, filepath, wrote, read_from, removals,
                   fetches, unitVars>>

\* a plausible slip: the result view returned without the cleanup
FinallyCheck_resultkept(r) ==
    /\ pc[r] = "finally"
    /\ pc' = [pc EXCEPT ![r] = IF Exists(filepath[r]) /\ view[r] # "result"
                               THEN "finally_remove" ELSE "done"]
    /\ UNCHANGED <<API_KEY, fs, upload, form, filepath, notice, view, wrote, read_from,
                   removals, fetches, ai_invoked, ai_calls, unitVars>>

\* line 292: os.path.exists(filepath) in the finally block
FinallyCheck(r) ==
    /\ pc[r] = "finally"
    /\ pc' = [pc EXCEPT ![r] = IF Exists(filepath[r]) THEN "finally_remove" ELSE "done"]
    /\ UNCHANGED <<API_KEY, fs, upload, form, filepath, notice, view, wrote, read_from,
                   removals, fetches, ai_invoked, ai_calls, unitVars>>

\* lines 293-297: os.remove(filepath), an OSError logged
FinallyRemove(r) ==
    /\ pc[r] = "finally_remove"
    /\ removals' = [removals EXCEPT ![r] = @ + 1]
    /\ fs' = [fs EXCEPT ![filepath[r]] = NoFile]
    /\ pc' = [pc EXCEPT ![r] = "done"]
    /\ UNCHANGED <<API_KEY, upload, form, filepath, notice, view, wrote, read_from,
                   fetches, ai_invoked, ai_calls, unitVars>>

NoPair == [text |-> None, error |-> None, calls |-> 0]
NoHandled == [view |-> "none", notice |-> <<>>, tailored |-> <<>>]
AdapterIdle == [stage |-> "idle", pair |-> NoPair, handled |-> NoHandled]
ExtractorIdle == [stage |-> "idle", ret |-> [result |-> None, low_text_warning |-> FALSE]]

InitUnits ==
    /\ ai_in = CHOOSE o \in Responses : TRUE
    /\ ai_out = AdapterIdle
    /\ url_in = [fetch |-> "timeout", has_body |-> FALSE, body |-> <<>>]
    /\ url_out = ExtractorIdle

Init == InitRequests /\ InitUnits

Next ==
    \E r \in Reqs :
        \/ Validate(r)
        \/ Save(r)
        \/ SaveFailedCheck(r)
        \/ SaveFailedRemove(r)
        \/ Resolve(r)
        \/ EarlyCheck(r)
        \/ EarlyRemove(r)
        \/ ExtractResume(r)
        \/ CallAI(r)
        \/ FinallyCheck(r)
        \/ FinallyRemove(r)

Spec == Init /\ [][Next]_vars

(***************************************************************************)
(* The adapter on its own, over every outcome of the service: the call,    *)
(* then the route's handling of the returned pair.                         *)
(***************************************************************************)
InitAdapter ==
    /\ InitRequests
    /\ ai_in \in AiOutcomes
    /\ ai_out = AdapterIdle
    /\ url_in = [fetch |-> "timeout", has_body |-> FALSE, body |-> <<>>]
    /\ url_out = ExtractorIdle

AdapterCall ==
    /\ ai_out.stage = "idle"
    /\ ai_out' = [ai_out EXCEPT !.stage = "returned",
                                !.pair = call_google_ai(API_KEY, ai_in)]
    /\ UNCHANGED <<reqVars, ai_in, url_in, url_out>>

AdapterHandled ==
    /\ ai_out.stage = "returned"
    /\ \E render_ok \in BOOLEAN :
        ai_out' = [ai_out EXCEPT !.stage = "handled",
                                 !.handled = HandleAiResult(ai_out.pair, render_ok)]
    /\ UNCHANGED <<reqVars, ai_in, url_in, url_out>>

NextAdapter == AdapterCall \/ AdapterHandled

SpecAdapter == InitAdapter /\ [][NextAdapter]_vars

(***************************************************************************)
(* The page extractor on its own, over every page up to MaxPageLen.        *)
(***************************************************************************)
InitExtractor ==
    /\ InitRequests
    /\ ai_in = CHOOSE o \in Responses : TRUE
    /\ ai_out = AdapterIdle
    /\ url_in \in Pages
    /\ url_out = ExtractorIdle

ExtractUrl ==
    /\ url_out.stage = "idle"
    /\ url_out' = [stage |-> "returned", ret |-> extract_text_from_url(url_in)]
    /\ UNCHANGED <<reqVars, ai_in, ai_out, url_in>>

NextExtractor == ExtractUrl

SpecExtractor == InitExtractor /\ [][NextExtractor]_vars

(***************************************************************************)
(* Properties                                                              *)
(***************************************************************************)
Done(r) == pc[r] = "done"

\* no path holds bytes that request r wrote
NoFileOf(r) == \A p \in Paths : fs[p].owner # r

ConfigNotice == <<"API Key not configured.">>
InvalidUrlNotice == <<"Invalid Job Link URL format.">>
AuthNotice == <<"Authentication Error: Invalid API key.">>
InvalidUploadNotices ==
    {<<"No resume file part selected.">>, <<"No resume file selected.">>,
     <<"Invalid resume file type (.docx only).">>}

C2_RemovedExactlyOnce ==
    \A r \in Reqs :
        Done(r) /\ wrote[r] /\ notice[r] # <<"Error saving uploaded file.">>
        => removals[r] = 1

\* C3: a scratch file belongs to the request that created it alone: from its
\* save until its own cleanup the request's path holds the bytes it wrote, and
\* the resume text it extracts is read from those bytes.
C3_ExclusiveOwnership ==
    \A r \in Reqs :
        /\ pc[r] \in {"resolve", "extract"} => fs[filepath[r]].owner = r
        /\ read_from[r] # -1 => read_from[r] = r

\* C4 as claimed: without the credential every completed request ends with the
\* configuration-error notice and made no outbound AI call.
C4_AlwaysConfigNotice ==
    \A r \in Reqs :
        ~API_KEY /\ Done(r) => notice[r] = ConfigNotice /\ ai_calls[r] = 0

\* C4 amended: without the credential no request makes an outbound AI call or
\* renders the result view; a completed request carries a failure notice, and
\* that notice is the configuration error exactly when the request got as far
\* as calling the adapter.
C4_NoCredential ==
    \A r \in Reqs :
        ~API_KEY =>
            /\ ai_calls[r] = 0
            /\ view[r] # "result"
            /\ Done(r) => notice[r] # <<>>
            /\ ai_invoked[r] > 0 <=> notice[r] = ConfigNotice

\* C4 witness: without the credential, a request reached the adapter and
\* completed with the configuration-error notice.
C4_Witness ==
    \E r \in Reqs :
        ~API_KEY /\ Done(r) /\ ai_invoked[r] = 1 /\ notice[r] = ConfigNotice

\* the upload's name ends in ".docx", in any letter case
EndsWithDocx(up) ==
    /\ up.has_part
    /\ Len(up.filename) >= 2
    /\ up.filename[Len(up.filename) - 1] = "."
    /\ up.filename[Len(up.filename)] \in {"docx", "DOCX", "Docx"}

\* C5: a request whose upload has no allowed extension (no file part and
\* the empty name included) is answered at once with an invalid-upload notice
\* and at no point writes a file to the upload directory.
C5_InvalidUploadNeverSaved ==
    \A r \in Reqs :
        pc[r] # "start" /\ ~EndsWithDocx(upload[r]) =>
            /\ Done(r) /\ view[r] = "redirect"
            /\ notice[r] \in InvalidUploadNotices
            /\ ~wrote[r] /\ filepath[r] = <<>> /\ removals[r] = 0
            /\ NoFileOf(r)

\* C5 witness: an upload named resume.docx.txt was rejected.
C5_Witness ==
    \E r \in Reqs :
        /\ Done(r)
        /\ upload[r].filename = <<"resume", ".", "docx", ".", "txt">>
        /\ notice[r] = <<"Invalid resume file type (.docx only).">>
        /\ ~wrote[r]

\* what the claim requires of a request whose job link is refused
InvalidLinkAbort(r) ==
    /\ notice[r] = InvalidUrlNotice
    /\ fetches[r] = 0 /\ ai_invoked[r] = 0 /\ ai_calls[r] = 0
    /\ Done(r) => NoFileOf(r)

ClassifyCaseInsensitive(error_str) ==
    LET text == Lower(error_str)
    IN  IF Contains(text, "api key not valid") THEN AuthNotice
        ELSE IF Contains(text, "billing account")
        THEN <<"Billing Error: Check Google Cloud project billing status.">>
        ELSE IF Contains(text, "permission denied")
                \/ Contains(text, "consumer does not have access")
        THEN <<"Permission Error: Check API enablement in Google Cloud project.">>
        ELSE IF Contains(text, "model") /\ Contains(text, "not found")
        THEN <<"Model Error: Selected model not found.">>
        ELSE <<"An unexpected AI service error occurred: ">> \o error_str

\* C7: an exception of the AI call is classified by its message, case
\* ignored, in the claim's order; a message with the invalid-credential phrase
\* in any letter case surfaces as the authentication error.
C7_CaseInsensitiveClassification ==
    API_KEY /\ ai_in.kind = "raises" /\ ai_out.stage = "handled" =>
        /\ ai_out.pair.error = Str(ClassifyCaseInsensitive(ai_in.error_str))
        /\ Contains(Lower(ai_in.error_str), "api key not valid") =>
               ai_out.handled.notice = AuthNotice

\* C8: the adapter returns (non-empty text, None) or (None, non-empty
\* message), and the route renders the result view only with non-empty text
\* and no error.
C8_PairWellFormed ==
    ai_out.stage # "idle" =>
        /\ \/ Truthy(ai_out.pair.text) /\ ai_out.pair.error = None
           \/ ai_out.pair.text = None /\ Truthy(ai_out.pair.error)
        /\ ai_out.handled.view = "result" =>
               /\ Truthy(ai_out.pair.text) /\ ai_out.pair.error = None
               /\ ai_out.handled.tailored = ai_out.pair.text.s
               /\ ai_out.handled.notice = <<>>

\* C8 witness: a text response was handled and the result view rendered.
C8_Witness ==
    /\ ai_out.stage = "handled" /\ ai_out.handled.view = "result"
    /\ ai_in.kind = "response" /\ ai_out.handled.tailored = <<"Tailored: John Doe">>

\* C9: a response whose block indicator is set yields no text and a message
\* that embeds the block reason, whatever text the response carries.
C9_BlockBeforeText ==
    /\ ai_out.stage # "idle" /\ API_KEY /\ ai_in.kind = "response"
    /\ ai_in.has_feedback /\ BlockSet(ai_in.block_reason)
    => /\ ai_out.pair.text = None
       /\ ai_out.pair.error =
              Str(<<"AI request blocked: ", ai_in.block_reason, ". Review inputs.">>)

\* C9 witness: a blocked response that carried text was answered with the
\* block message.
C9_Witness ==
    /\ ai_out.stage = "handled" /\ API_KEY /\ ai_in.kind = "response"
    /\ ai_in.has_feedback /\ ai_in.block_reason = "SAFETY"
    /\ ai_in.has_text /\ ai_in.text # <<>>
    /\ ai_out.handled.view = "redirect"

\* C10 as claimed: a fetched page with a body whose text has 0 to 99 characters
\* yields that text, not None; None only on a failed fetch or parse or a
\* missing body.
C10_ShortTextReturned ==
    url_out.stage = "returned" =>
        /\ url_in.fetch = "ok" /\ url_in.has_body
              /\ StrLen(BodyText(url_in)) < LowTextThreshold
           => url_out.ret.result = Str(BodyText(url_in))
        /\ url_out.ret.result = None => url_in.fetch # "ok" \/ ~url_in.has_body

\* C10 amended: a fetched page with a body whose text has 1 to 99 characters
\* yields that text, not None, with the low-text warning logged; None is
\* returned exactly on a failed fetch or parse, a missing body, or a body
\* whose text is empty.
C10_NonEmptyShortTextReturned ==
    url_out.stage = "returned" =>
        /\ url_in.fetch = "ok" /\ url_in.has_body
              /\ StrLen(BodyText(url_in)) \in 1..(LowTextThreshold - 1)
           => /\ url_out.ret.result = Str(BodyText(url_in))
              /\ url_out.ret.low_text_warning
        /\ url_out.ret.result = None <=>
              \/ url_in.fetch # "ok"
              \/ ~url_in.has_body
              \/ BodyText(url_in) = <<>>

\* C10 witness: a one-character body was returned, with the warning.
C10_Witness ==
    /\ url_out.stage = "returned" /\ url_in.fetch = "ok" /\ url_in.has_body
    /\ StrLen(BodyText(url_in)) = 1
    /\ url_out.ret.result = Str(<<"a">>) /\ url_out.ret.low_text_warning

====
